---- MODULE Spec2Model ----
(***************************************************************************)
(* A model of the hash_cons crate: the interning table (HcTable /          *)
(* HCTable), its handles (Hc) and the Slot (Inner) life cycle, in the      *)
(* single-threaded build (src/src/single_threaded.rs) and the thread-safe  *)
(* build (src/src/thread_safe.rs), with the auto-cleanup feature on or     *)
(* off.                                                                    *)
(*                                                                         *)
(* Slots are numbered in allocation order and never reused.  The value     *)
(* allocation (Rc<T> / Arc<T>) made by the intern call that created Slot s *)
(* is called allocation s: it is Slot s's elem and, when that call         *)
(* inserted a vacant entry, also the entry's key.                          *)
(***************************************************************************)
EXTENDS Integers, Sequences, FiniteSets, TLC

\* Bounds of the model.
MaxSlots == 3          \* Slots ever allocated in one run
MaxRefs == 2           \* handles the user keeps per Slot
NumThreads == 2        \* worker threads of the thread-safe build
MaxTables == 1         \* table owners (HcTable clones) one thread keeps
MaxNots == 1           \* Slots of Not values allocated on top of MaxSlots
MaxCalls == 2          \* hashcons calls per thread and constant in the keep-all runs
MaxForeign == 1        \* Slots the second table ever allocates

Threads == 1..NumThreads
Consts == {"T", "F"}   \* BoolExpr::Const(true), BoolExpr::Const(false)

VARIABLES
    variant,   \* "st": single_threaded.rs, "mt": thread_safe.rs (cfg feature thread-safe)
    auto,      \* cfg feature auto-cleanup
    vals,      \* vals[s]: the value of allocation s = Inner.elem of Slot s
    strong,    \* strong[s]: strong count of the Rc/Arc<Inner> of Slot s
    held,      \* Slots whose Inner has not dropped its fields yet (it still owns elem)
    handles,   \* handles[s]: Hc handles to Slot s the user keeps in variables
    table,     \* the HashMap: key allocation -> Slot the entry's Weak points to
    lock,      \* 0: RwLock / RefCell free, t: write-locked (mutably borrowed) by t
    pc,        \* pc[t]: where thread t is
    cur,       \* cur[t]: the Slot whose Inner::drop thread t is running, or 0
    todo,      \* todo[t]: handles thread t still has to drop, in drop order
    visited,   \* visited[t]: keys the running retain pass of t has kept
    dropped,   \* dropped[t]: the `dropped` flag of the running cleanup pass
    calls,     \* history: calls[t][c] hashcons(Const(c)) calls of t in a keep-all run
    seen,      \* history: the values interned in a keep-all run
    swept,     \* history: cleanup() has returned and nothing was called since
    tables,    \* tables[t]: the HcTable owners (Rc/Arc<InnerTable>) thread t keeps
    poisoned,  \* the RwLock is poisoned: a thread panicked while it held the guard
    foreign,   \* the Slots made by a second, independently constructed table
    table2,    \* the HashMap of the second table
    spare      \* history: spare[t], the entries at the start of the cleanup() call
               \* of t, plus one, minus the retain passes the call has begun

config == <<variant, auto>>
heap == <<vals, strong, held, handles>>
local == <<pc, cur, todo, visited, dropped>>
keep == <<calls, seen>>
store == <<tables, poisoned>>
second == <<foreign, table2>>
vars == <<variant, auto, vals, strong, held, handles, table, lock, pc, cur, todo,
          visited, dropped, calls, seen, swept, tables, poisoned, foreign, table2,
          spare>>

Slots == 1..Len(vals)

\* Weak::upgrade succeeds / Weak::strong_count() > 0
Live(s) == strong[s] > 0

\* impl Drop for Inner exists: always in single_threaded.rs, under
\* cfg(feature = "auto-cleanup") in thread_safe.rs
DropImpl == variant = "st" \/ auto

\* HcTable::cleanup exists: always in single_threaded.rs, under
\* cfg(not(feature = "auto-cleanup")) in thread_safe.rs
HasCleanup == variant = "st" \/ ~auto

Active == IF variant = "st" THEN {1} ELSE Threads

\* thread t has a table to call hashcons, len or cleanup on
Owns(t) == tables[t] > 0

\* The InnerTable exists: its strong count is not 0.  The owners are the
\* HcTables and, inside Inner::drop, the Rc/Arc that _table.upgrade()
\* returned; a Slot's _table is a Weak and does not count.
StoreAlive == (\E t \in Threads : tables[t] > 0) \/ (\E t \in Threads : cur[t] # 0)

\* what read() / write() returns once the lock is free
LockResult == IF poisoned THEN "Err" ELSE "Ok"

\* mutant: the lock result is unwrapped
GuardUnwrap(r) == r = "Ok"

\* match result { Ok(guard) => guard, Err(poisoned) => poisoned.into_inner() }:
\* the caller gets the guard in both cases
Guard(r) == r \in {"Ok", "Err"}

\* the destructor of the value panics (PanicOnDrop of the tests)
PanicsOnDrop(v) == v.tag = "P"

\* the handles held by the values of allocations ks, in the order of their drop
RECURSIVE KidsOf(_)
KidsOf(ks) ==
    IF ks = {} THEN <<>>
    ELSE LET k == CHOOSE x \in ks : TRUE IN vals[k].kids \o KidsOf(ks \ {k})

\* derived PartialEq of the value type: same variant and equal operands, where
\* operands are handles compared by Hc::eq, i.e. by the values they wrap
RECURSIVE ValEq(_, _)
ValEq(v, w) ==
    /\ v.tag = w.tag
    /\ Len(v.kids) = Len(w.kids)
    /\ \A i \in 1..Len(v.kids) : ValEq(vals[v.kids[i]], vals[w.kids[i]])

\* mutant: handles are compared by Slot identity (ptr_eq)
HcEqByPointer(s1, s2) == s1 = s2

\* Hc::eq
HcEq(s1, s2) == ValEq(vals[s1], vals[s2])

\* Hash of the value type, as the hash collision tests implement it: 0 for
\* Const(false), 1 for Const(true) and for every value that holds handles
ValHash(v) == IF v.tag = "F" THEN 0 ELSE 1

\* Hc::hash
HcHash(s) == ValHash(vals[s])

\* Ord of a value type that derives it: the variants in declaration order,
\* then the operands from left to right, which are handles compared by Hc::cmp
TagRank(tag) == CASE tag = "F" -> 0 [] tag = "T" -> 1 [] tag = "And" -> 2
                  [] tag = "Not" -> 3 [] OTHER -> 4
RECURSIVE ValCmp(_, _)
RECURSIVE KidsCmp(_, _)
KidsCmp(a, b) ==
    IF a = <<>> \/ b = <<>> THEN 0
    ELSE LET c == ValCmp(vals[Head(a)], vals[Head(b)])
         IN  IF c # 0 THEN c ELSE KidsCmp(Tail(a), Tail(b))
ValCmp(v, w) ==
    IF TagRank(v.tag) < TagRank(w.tag) THEN -1
    ELSE IF TagRank(v.tag) > TagRank(w.tag) THEN 1
    ELSE KidsCmp(v.kids, w.kids)

\* Hc::cmp / Hc::partial_cmp
HcCmp(s1, s2) == ValCmp(vals[s1], vals[s2])

\* mutant: the lookup compares allocations, so the value of a call never
\* matches a key
FindKeyByPointer(v) == {}

\* mutant: the lookup takes a key with the same hash for the value
FindKeyByHash(v) == {k \in DOMAIN table : ValHash(vals[k]) = ValHash(v)}

\* the keys of the map equal to value v: HashMap compares the hashes, then
\* the keys with Eq
FindKey(v) == {k \in DOMAIN table : ValHash(vals[k]) = ValHash(v) /\ ValEq(vals[k], v)}

\* HcTable::len
TableLen == Cardinality(DOMAIN table)

Without(m, ks) == [k \in DOMAIN m \ ks |-> m[k]]

Const(c) == [tag |-> c, kids |-> <<>>]
And(a, b) == [tag |-> "And", kids |-> <<a, b>>]
Not(a) == [tag |-> "Not", kids |-> <<a>>]

\* the Slots that may exist when a Slot for v is allocated
Room(v) == MaxSlots + (IF v.tag = "Not" THEN MaxNots ELSE 0)

SeqDec(f, s) == [f EXCEPT ![s] = @ - 1]
SeqInc(f, s) == [f EXCEPT ![s] = @ + 1]

Init ==
    /\ vals = <<>>
    /\ strong = <<>>
    /\ held = {}
    /\ handles = <<>>
    /\ table = <<>>
    /\ lock = 0
    /\ pc = [t \in Threads |-> "idle"]
    /\ cur = [t \in Threads |-> 0]
    /\ todo = [t \in Threads |-> <<>>]
    /\ visited = [t \in Threads |-> {}]
    /\ dropped = [t \in Threads |-> FALSE]
    /\ calls = [t \in Threads |-> [c \in Consts |-> 0]]
    /\ seen = {}
    /\ swept = FALSE
    /\ poisoned = FALSE
    /\ foreign = {}
    /\ table2 = <<>>
    /\ spare = [t \in Threads |-> 0]

\* No thread-local work is pending: the thread is between two operations.
Idle(t) == pc[t] = "idle" /\ cur[t] = 0 /\ todo[t] = <<>>

----------------------------------------------------------------------------
(* HcTable::hashcons -> HcTable::intern.  The critical section is one step:  *)
(* it starts when write() / borrow_mut() succeeds.  h is the user's handles  *)
(* and sc the strong counts after the caller has built v (moving handles     *)
(* into v, or clones of them); cap bounds the handles the user keeps per     *)
(* Slot.                                                                     *)

\* mutant: the Occupied branch never upgrades the Weak it finds
InternBlind(t, v, h, sc, cap) ==
    LET ks == FindKey(v)
        k == CHOOSE x \in ks : TRUE
    IN  /\ Len(vals) < Room(v)
        /\ vals' = Append(vals, v)
        /\ strong' = Append(sc, 1)
        /\ handles' = Append(h, 1)
        /\ held' = held \cup {Len(vals) + 1}
        /\ table' = IF ks # {}
                    THEN [table EXCEPT ![k] = Len(vals) + 1]
                    ELSE table @@ ((Len(vals) + 1) :> (Len(vals) + 1))
        /\ UNCHANGED <<lock, pc, todo, poisoned>>

\* mutant: the Occupied branch with a dead Weak makes the new Slot and
\* returns it without o.insert
InternNoOverwrite(t, v, h, sc, cap) ==
    LET ks == FindKey(v)
        k == CHOOSE x \in ks : TRUE
    IN  IF ~Guard(LockResult)
        THEN \* the lock result is not turned into a guard: the call panics
             /\ pc' = [pc EXCEPT ![t] = "panic"]
             /\ strong' = sc
             /\ handles' = h
             /\ UNCHANGED <<vals, held, table, lock, todo, poisoned>>
        ELSE IF ks # {} /\ sc[table[k]] > 0 /\ PanicsOnDrop(v)
        THEN \* as below, and the destructor of the caller's value panics while
             \* the guard is alive: the guard is dropped by the unwinding, which
             \* poisons the RwLock, and so is rc_hc; the panic reaches the caller
             /\ strong' = sc
             /\ handles' = h
             /\ poisoned' = (poisoned \/ variant = "mt")
             /\ UNCHANGED <<vals, held, table, lock, pc, todo>>
        ELSE IF ks # {} /\ sc[table[k]] > 0
        THEN \* Entry::Occupied, upgrade() is Some: return rc_hc.  The locals are
             \* dropped in reverse order: rc_value (the caller's value, with the
             \* handles it holds) before the guard mut_table.
             /\ h[table[k]] < cap
             /\ strong' = SeqInc(sc, table[k])
             /\ handles' = SeqInc(h, table[k])
             /\ UNCHANGED <<vals, held, table, poisoned>>
             /\ IF v.kids = <<>>
                THEN UNCHANGED <<lock, pc, todo>>
                ELSE /\ lock' = t
                     /\ pc' = [pc EXCEPT ![t] = "hit"]
                     /\ todo' = [todo EXCEPT ![t] = v.kids]
        ELSE \* Entry::Occupied with a dead Weak (o.insert keeps the old key), or
             \* Entry::Vacant (v.insert stores rc_val_dup as the key)
             /\ Len(vals) < Room(v)
             /\ vals' = Append(vals, v)
             /\ strong' = Append(sc, 1)
             /\ handles' = Append(h, 1)
             /\ held' = held \cup {Len(vals) + 1}
             /\ table' = IF ks # {}
                         THEN table
                         ELSE table @@ ((Len(vals) + 1) :> (Len(vals) + 1))
             /\ UNCHANGED <<lock, pc, todo, poisoned>>

Intern(t, v, h, sc, cap) ==
    LET ks == FindKey(v)
        k == CHOOSE x \in ks : TRUE
    IN  IF ~Guard(LockResult)
        THEN \* the lock result is not turned into a guard: the call panics
             /\ pc' = [pc EXCEPT ![t] = "panic"]
             /\ strong' = sc
             /\ handles' = h
             /\ UNCHANGED <<vals, held, table, lock, todo, poisoned>>
        ELSE IF ks # {} /\ sc[table[k]] > 0 /\ PanicsOnDrop(v)
        THEN \* as below, and the destructor of the caller's value panics while
             \* the guard is alive: the guard is dropped by the unwinding, which
             \* poisons the RwLock, and so is rc_hc; the panic reaches the caller
             /\ strong' = sc
             /\ handles' = h
             /\ poisoned' = (poisoned \/ variant = "mt")
             /\ UNCHANGED <<vals, held, table, lock, pc, todo>>
        ELSE IF ks # {} /\ sc[table[k]] > 0
        THEN \* Entry::Occupied, upgrade() is Some: return rc_hc.  The locals are
             \* dropped in reverse order: rc_value (the caller's value, with the
             \* handles it holds) before the guard mut_table.
             /\ h[table[k]] < cap
             /\ strong' = SeqInc(sc, table[k])
             /\ handles' = SeqInc(h, table[k])
             /\ UNCHANGED <<vals, held, table, poisoned>>
             /\ IF v.kids = <<>>
                THEN UNCHANGED <<lock, pc, todo>>
                ELSE /\ lock' = t
                     /\ pc' = [pc EXCEPT ![t] = "hit"]
                     /\ todo' = [todo EXCEPT ![t] = v.kids]
        ELSE \* Entry::Occupied with a dead Weak (o.insert keeps the old key), or
             \* Entry::Vacant (v.insert stores rc_val_dup as the key)
             /\ Len(vals) < Room(v)
             /\ vals' = Append(vals, v)
             /\ strong' = Append(sc, 1)
             /\ handles' = Append(h, 1)
             /\ held' = held \cup {Len(vals) + 1}
             /\ table' = IF ks # {}
                         THEN [table EXCEPT ![k] = Len(vals) + 1]
                         ELSE table @@ ((Len(vals) + 1) :> (Len(vals) + 1))
             /\ UNCHANGED <<lock, pc, todo, poisoned>>

HashconsConst(t, c) ==
    /\ Idle(t)
    /\ Owns(t)
    /\ lock = 0
    /\ Intern(t, Const(c), handles, strong, MaxRefs)
    /\ swept' = FALSE
    /\ UNCHANGED <<config, second, spare, tables, cur, visited, dropped, keep>>

\* hashcons(BoolExpr::And(a, b)): the user moves one handle to a and one to b
\* into the value
HashconsAnd(t, a, b) ==
    /\ Idle(t)
    /\ Owns(t)
    /\ lock = 0
    /\ vals[a].tag = "T"
    /\ vals[b].tag = "F"
    /\ handles[a] >= 1
    /\ handles[b] >= 1
    /\ Intern(t, And(a, b), SeqDec(SeqDec(handles, a), b), strong, MaxRefs)
    /\ swept' = FALSE
    /\ UNCHANGED <<config, second, spare, tables, cur, visited, dropped, keep>>

\* hashcons(BoolExpr::Not(a)): the user moves one handle to a into the value
HashconsNot(t, a) ==
    /\ Idle(t)
    /\ Owns(t)
    /\ lock = 0
    /\ vals[a].tag = "T"
    /\ handles[a] >= 1
    /\ Intern(t, Not(a), SeqDec(handles, a), strong, MaxRefs)
    /\ swept' = FALSE
    /\ UNCHANGED <<config, second, spare, tables, cur, visited, dropped, keep>>

\* the end of intern on a cache hit whose value held handles: the guard is
\* dropped after rc_value
HitReturn(t) ==
    /\ pc[t] = "hit"
    /\ cur[t] = 0
    /\ todo[t] = <<>>
    /\ lock' = 0
    /\ pc' = [pc EXCEPT ![t] = "idle"]
    /\ UNCHANGED <<config, second, spare, store, heap, table, cur, todo, visited, dropped, keep, swept>>

----------------------------------------------------------------------------
(* Hc::clone and the drop of an Hc.                                          *)

Clone(t, s) ==
    /\ Idle(t)
    /\ handles[s] >= 1
    /\ handles[s] < MaxRefs
    /\ handles' = SeqInc(handles, s)
    /\ strong' = SeqInc(strong, s)
    /\ swept' = FALSE
    /\ UNCHANGED <<config, second, spare, store, vals, held, table, lock, local, keep>>

\* Thread t drops one strong reference to Slot s; rest is what it has to drop
\* afterwards.  When the count reaches 0 the Inner is destroyed: with a Drop
\* impl, Inner::drop upgrades _table and, on Some, runs up to the write() /
\* borrow_mut() call (cur = s); on None, or without a Drop impl, the fields are
\* dropped at once, and elem frees its value (dropping the handles in it)
\* unless the map still holds it as a key.
\* mutant: the Slot's entry is removed wherever its last handle is dropped,
\* as if Inner had its Drop impl in every build
ReleaseRemoves(t, s, rest) ==
    /\ strong' = SeqDec(strong, s)
    /\ table' = IF strong[s] > 1 THEN table ELSE Without(table, FindKey(vals[s]))
    /\ held' = IF strong[s] > 1 THEN held ELSE held \ {s}
    /\ todo' = [todo EXCEPT ![t] = (IF strong[s] > 1 THEN <<>> ELSE vals[s].kids) \o rest]
    /\ UNCHANGED cur

\* mutant: Inner::drop takes the upgrade of _table for granted and goes on to
\* the write() / borrow_mut() call
ReleaseAssumesStore(t, s, rest) ==
    /\ strong' = SeqDec(strong, s)
    /\ table' = table
    /\ IF strong[s] > 1
       THEN /\ todo' = [todo EXCEPT ![t] = rest]
            /\ UNCHANGED <<cur, held>>
       ELSE IF DropImpl
       THEN /\ cur' = [cur EXCEPT ![t] = s]
            /\ todo' = [todo EXCEPT ![t] = rest]
            /\ UNCHANGED held
       ELSE /\ held' = held \ {s}
            /\ todo' = [todo EXCEPT ![t] =
                         (IF s \in DOMAIN table THEN <<>> ELSE vals[s].kids) \o rest]
            /\ UNCHANGED cur

Release(t, s, rest) ==
    /\ strong' = SeqDec(strong, s)
    /\ table' = table
    /\ IF strong[s] > 1
       THEN /\ todo' = [todo EXCEPT ![t] = rest]
            /\ UNCHANGED <<cur, held>>
       ELSE IF DropImpl /\ StoreAlive
       THEN /\ cur' = [cur EXCEPT ![t] = s]
            /\ todo' = [todo EXCEPT ![t] = rest]
            /\ UNCHANGED held
       ELSE /\ held' = held \ {s}
            /\ todo' = [todo EXCEPT ![t] =
                         (IF s \in DOMAIN table THEN <<>> ELSE vals[s].kids) \o rest]
            /\ UNCHANGED cur

DropHandle(t, s) ==
    /\ Idle(t)
    /\ handles[s] >= 1
    /\ handles' = SeqDec(handles, s)
    /\ Release(t, s, <<>>)
    /\ swept' = FALSE
    /\ UNCHANGED <<config, second, spare, store, vals, lock, pc, visited, dropped, keep>>

\* the drop of a handle held inside a value that is being destroyed
DropNested(t) ==
    /\ cur[t] = 0
    /\ todo[t] # <<>>
    /\ pc[t] # "panic"
    /\ Release(t, Head(todo[t]), Tail(todo[t]))
    /\ UNCHANGED <<config, second, spare, store, vals, handles, lock, pc, visited, dropped, keep, swept>>

\* Inner::drop from write() / borrow_mut() on: remove_entry(&key) removes the
\* entry whose key equals the value, the guard is dropped, then key and the
\* fields: elem frees the value unless the map still holds it as a key.
\* borrow_mut() on a RefCell that is already borrowed panics; write() blocks.
\* The upgraded Rc/Arc to the InnerTable is dropped after the guard and key:
\* if it was the last owner the map is destroyed with the keys left in it.
\* mutant: Inner::drop takes the lock but does not call remove_entry
RemoveEntryForgets(t) ==
    /\ cur[t] # 0
    /\ pc[t] # "panic"
    /\ lock = 0
    /\ held' = held \ {cur[t]}
    /\ cur' = [cur EXCEPT ![t] = 0]
    /\ UNCHANGED <<config, second, spare, store, vals, strong, handles, table, lock, pc, todo, visited, dropped,
                   keep, swept>>

\* mutant: Inner::drop frees elem while the guard is alive
RemoveEntryUnderLock(t) ==
    LET s == cur[t]
        left == Without(table, FindKey(vals[s]))
    IN  /\ s # 0
        /\ pc[t] # "panic"
        /\ lock = 0
        /\ table' = left
        /\ poisoned' = (poisoned \/ PanicsOnDrop(vals[s]))
        /\ held' = held \ {s}
        /\ cur' = [cur EXCEPT ![t] = 0]
        /\ todo' = [todo EXCEPT ![t] = vals[s].kids \o @]
        /\ UNCHANGED <<config, second, spare, tables, vals, strong, handles, lock, pc, visited,
                       dropped, keep, swept>>

\* mutant: Inner::drop keeps its guard while elem is freed and the handles in
\* the value are dropped
RemoveEntryHoldsLock(t) ==
    LET s == cur[t]
    IN  /\ s # 0
        /\ pc[t] # "panic"
        /\ lock = 0
        /\ table' = Without(table, FindKey(vals[s]))
        /\ lock' = t
        /\ held' = held \ {s}
        /\ cur' = [cur EXCEPT ![t] = 0]
        /\ todo' = [todo EXCEPT ![t] = vals[s].kids \o @]
        /\ UNCHANGED <<config, second, spare, store, vals, strong, handles, pc, visited, dropped,
                       keep, swept>>

RemoveEntry(t) ==
    LET s == cur[t]
        ks == FindKey(vals[s])
        last == \A u \in Threads : tables[u] = 0 /\ (u # t => cur[u] = 0)
        left == IF last THEN <<>> ELSE Without(table, ks)
        gone == {k \in DOMAIN table \ DOMAIN left : k # s /\ k \notin held}
    IN  /\ s # 0
        /\ pc[t] # "panic"
        /\ IF variant = "st" /\ lock # 0
           THEN /\ pc' = [pc EXCEPT ![t] = "panic"]
                /\ UNCHANGED <<config, second, spare, store, heap, table, lock, cur, todo, visited, dropped,
                               keep, swept>>
           ELSE IF variant = "mt" /\ lock = t
           THEN \* write() on a RwLock the thread holds itself blocks for ever (no
                \* step) or panics: the unwinding drops the guard of the
                \* enclosing call, which poisons the lock
                /\ pc' = [pc EXCEPT ![t] = "panic"]
                /\ lock' = 0
                /\ poisoned' = TRUE
                /\ UNCHANGED <<config, second, spare, tables, heap, table, cur, todo, visited, dropped,
                               keep, swept>>
           ELSE IF ~Guard(LockResult)
           THEN /\ lock = 0
                /\ pc' = [pc EXCEPT ![t] = "panic"]
                /\ UNCHANGED <<config, second, spare, store, heap, table, lock, cur, todo, visited, dropped,
                               keep, swept>>
           ELSE /\ lock = 0
                /\ table' = left
                /\ poisoned' = (poisoned \/ \E k \in gone : PanicsOnDrop(vals[k]))
                /\ held' = held \ {s}
                /\ cur' = [cur EXCEPT ![t] = 0]
                /\ todo' = [todo EXCEPT ![t] =
                             KidsOf(gone)
                             \o (IF s \in DOMAIN left THEN <<>> ELSE vals[s].kids)
                             \o @]
                /\ UNCHANGED <<config, second, spare, tables, vals, strong, handles, lock, pc, visited,
                               dropped, keep, swept>>

----------------------------------------------------------------------------
(* Clone for HcTable (thread_safe.rs only) and the drop of an HcTable.  The   *)
(* clone is given to thread u.  Dropping the last owner destroys the         *)
(* InnerTable: the map is dropped with its keys, and a key that no Inner     *)
(* holds frees its value.                                                    *)

CloneTable(t, u) ==
    /\ variant = "mt"
    /\ Idle(t)
    /\ Owns(t)
    /\ tables[u] < MaxTables
    /\ tables' = [tables EXCEPT ![u] = @ + 1]
    /\ UNCHANGED <<config, second, spare, heap, table, lock, local, keep, swept, poisoned>>

\* mutant: every HcTable owns its map, so dropping any owner destroys it
DropTableClears(t) ==
    /\ Idle(t)
    /\ Owns(t)
    /\ tables' = [tables EXCEPT ![t] = @ - 1]
    /\ table' = <<>>
    /\ todo' = [todo EXCEPT ![t] = KidsOf(DOMAIN table \ held)]
    /\ swept' = FALSE
    /\ UNCHANGED <<config, second, spare, heap, lock, pc, cur, visited, dropped, keep, poisoned>>

\* mutant: the destroyed map frees the value of every key, as if the keys
\* were values of their own and not allocations shared with the Slots
DropTableFreesKeys(t) ==
    /\ Idle(t)
    /\ Owns(t)
    /\ tables' = [tables EXCEPT ![t] = @ - 1]
    /\ IF \E u \in Threads : tables'[u] > 0 \/ cur[u] # 0
       THEN UNCHANGED <<table, todo>>
       ELSE /\ table' = <<>>
            /\ todo' = [todo EXCEPT ![t] = KidsOf(DOMAIN table)]
    /\ swept' = FALSE
    /\ UNCHANGED <<config, second, spare, heap, lock, pc, cur, visited, dropped, keep, poisoned>>

DropTable(t) ==
    /\ Idle(t)
    /\ Owns(t)
    /\ tables' = [tables EXCEPT ![t] = @ - 1]
    /\ IF \E u \in Threads : tables'[u] > 0 \/ cur[u] # 0
       THEN UNCHANGED <<table, todo>>
       ELSE /\ table' = <<>>
            /\ todo' = [todo EXCEPT ![t] = KidsOf(DOMAIN table \ held)]
    /\ swept' = FALSE
    /\ UNCHANGED <<config, second, spare, heap, lock, pc, cur, visited, dropped, keep, poisoned>>

----------------------------------------------------------------------------
(* HcTable::cleanup -> InnerTable::cleanup.  thread_safe.rs loops over       *)
(* write-locked retain passes until a pass drops nothing; single_threaded.rs *)
(* runs one retain pass.  retain visits the entries in the map's iteration   *)
(* order, which is arbitrary.                                                *)

CleanupCall(t) ==
    /\ HasCleanup
    /\ Idle(t)
    /\ Owns(t)
    /\ lock = 0
    /\ IF Guard(LockResult)
       THEN /\ lock' = t
            /\ pc' = [pc EXCEPT ![t] = "sweep"]
            /\ spare' = [spare EXCEPT ![t] = TableLen]
       ELSE /\ lock' = lock
            /\ pc' = [pc EXCEPT ![t] = "panic"]
            /\ spare' = spare
    /\ visited' = [visited EXCEPT ![t] = {}]
    /\ dropped' = [dropped EXCEPT ![t] = FALSE]
    /\ UNCHANGED <<config, second, store, heap, table, cur, todo, keep, swept>>

\* mutant: the retain closure sets `dropped` for the entries it keeps as well
RetainEntryFlagsKept(t, k) ==
    /\ pc[t] = "sweep"
    /\ cur[t] = 0
    /\ todo[t] = <<>>
    /\ k \in DOMAIN table \ visited[t]
    /\ IF strong[table[k]] = 0 /\ k \notin held /\ PanicsOnDrop(vals[k])
       THEN /\ table' = Without(table, {k})
            /\ lock' = 0
            /\ pc' = [pc EXCEPT ![t] = "idle"]
            /\ poisoned' = (poisoned \/ variant = "mt")
            /\ visited' = [visited EXCEPT ![t] = {}]
            /\ dropped' = [dropped EXCEPT ![t] = FALSE]
            /\ spare' = [spare EXCEPT ![t] = 0]
            /\ UNCHANGED todo
       ELSE IF strong[table[k]] = 0
       THEN /\ table' = Without(table, {k})
            /\ dropped' = [dropped EXCEPT ![t] = (variant = "mt") \/ @]
            /\ todo' = [todo EXCEPT ![t] = IF k \in held THEN <<>> ELSE vals[k].kids]
            /\ UNCHANGED <<visited, lock, pc, poisoned, spare>>
       ELSE /\ visited' = [visited EXCEPT ![t] = @ \cup {k}]
            /\ dropped' = [dropped EXCEPT ![t] = TRUE]
            /\ UNCHANGED <<table, todo, lock, pc, poisoned, spare>>
    /\ UNCHANGED <<config, second, tables, heap, cur, keep, swept>>

\* mutant: the retain closure tests the Slot that the key was made for, not
\* the Slot the Weak refers to
RetainEntryByKey(t, k) ==
    /\ pc[t] = "sweep"
    /\ cur[t] = 0
    /\ todo[t] = <<>>
    /\ k \in DOMAIN table \ visited[t]
    /\ IF strong[k] = 0 /\ k \notin held /\ PanicsOnDrop(vals[k])
       THEN /\ table' = Without(table, {k})
            /\ lock' = 0
            /\ pc' = [pc EXCEPT ![t] = "idle"]
            /\ poisoned' = (poisoned \/ variant = "mt")
            /\ visited' = [visited EXCEPT ![t] = {}]
            /\ dropped' = [dropped EXCEPT ![t] = FALSE]
            /\ spare' = [spare EXCEPT ![t] = 0]
            /\ UNCHANGED todo
       ELSE IF strong[k] = 0
       THEN /\ table' = Without(table, {k})
            /\ dropped' = [dropped EXCEPT ![t] = (variant = "mt") \/ @]
            /\ todo' = [todo EXCEPT ![t] = IF k \in held THEN <<>> ELSE vals[k].kids]
            /\ UNCHANGED <<visited, lock, pc, poisoned, spare>>
       ELSE /\ visited' = [visited EXCEPT ![t] = @ \cup {k}]
            /\ UNCHANGED <<table, dropped, todo, lock, pc, poisoned, spare>>
    /\ UNCHANGED <<config, second, tables, heap, cur, keep, swept>>

\* the retain closure on one entry: remove it iff strong_count() == 0.  A
\* removed key frees its value when no Inner holds it any more; if the value's
\* destructor panics, the unwinding ends the cleanup call and drops its guard,
\* which poisons the RwLock.
RetainEntry(t, k) ==
    /\ pc[t] = "sweep"
    /\ cur[t] = 0
    /\ todo[t] = <<>>
    /\ k \in DOMAIN table \ visited[t]
    /\ IF strong[table[k]] = 0 /\ k \notin held /\ PanicsOnDrop(vals[k])
       THEN /\ table' = Without(table, {k})
            /\ lock' = 0
            /\ pc' = [pc EXCEPT ![t] = "idle"]
            /\ poisoned' = (poisoned \/ variant = "mt")
            /\ visited' = [visited EXCEPT ![t] = {}]
            /\ dropped' = [dropped EXCEPT ![t] = FALSE]
            /\ spare' = [spare EXCEPT ![t] = 0]
            /\ UNCHANGED todo
       ELSE IF strong[table[k]] = 0
       THEN /\ table' = Without(table, {k})
            /\ dropped' = [dropped EXCEPT ![t] = (variant = "mt") \/ @]
            /\ todo' = [todo EXCEPT ![t] = IF k \in held THEN <<>> ELSE vals[k].kids]
            /\ UNCHANGED <<visited, lock, pc, poisoned, spare>>
       ELSE /\ visited' = [visited EXCEPT ![t] = @ \cup {k}]
            /\ UNCHANGED <<table, dropped, todo, lock, pc, poisoned, spare>>
    /\ UNCHANGED <<config, second, tables, heap, cur, keep, swept>>

\* the end of a retain pass: the guard is dropped; `if !dropped { break; }`
\* mutant: cleanup returns after one retain pass (no loop)
PassEndOnce(t) ==
    /\ pc[t] = "sweep"
    /\ cur[t] = 0
    /\ todo[t] = <<>>
    /\ DOMAIN table \subseteq visited[t]
    /\ lock' = 0
    /\ pc' = [pc EXCEPT ![t] = "idle"]
    /\ visited' = [visited EXCEPT ![t] = {}]
    /\ dropped' = [dropped EXCEPT ![t] = FALSE]
    /\ swept' = TRUE
    /\ spare' = [spare EXCEPT ![t] = 0]
    /\ UNCHANGED <<config, second, store, heap, table, cur, todo, keep>>

PassEnd(t) ==
    /\ pc[t] = "sweep"
    /\ cur[t] = 0
    /\ todo[t] = <<>>
    /\ DOMAIN table \subseteq visited[t]
    /\ lock' = 0
    /\ pc' = [pc EXCEPT ![t] = IF dropped[t] THEN "again" ELSE "idle"]
    /\ visited' = [visited EXCEPT ![t] = {}]
    /\ dropped' = [dropped EXCEPT ![t] = FALSE]
    /\ swept' = ~dropped[t]
    /\ spare' = [spare EXCEPT ![t] = IF dropped[t] THEN @ ELSE 0]
    /\ UNCHANGED <<config, second, store, heap, table, cur, todo, keep>>

\* the next iteration of the loop: self.table.write()
PassAgain(t) ==
    /\ pc[t] = "again"
    /\ lock = 0
    /\ IF Guard(LockResult)
       THEN /\ lock' = t
            /\ pc' = [pc EXCEPT ![t] = "sweep"]
            /\ spare' = [spare EXCEPT ![t] = @ - 1]
       ELSE /\ lock' = lock
            /\ pc' = [pc EXCEPT ![t] = "panic"]
            /\ spare' = spare
    /\ UNCHANGED <<config, second, store, heap, table, cur, todo, visited, dropped, keep, swept>>

----------------------------------------------------------------------------
(* A second table, made by its own HcTable::new().  The Inner of a Slot      *)
(* carries the Weak _table of the table whose intern made it, so a foreign   *)
(* Slot is removed from the second map and never from the first.  The       *)
(* second table interns constants only: each of its critical sections is    *)
(* one step under its own lock, which is free whenever the step starts.      *)

FindKeyOther(v) ==
    {k \in DOMAIN table2 : ValHash(vals[k]) = ValHash(v) /\ ValEq(vals[k], v)}

\* hashcons(BoolExpr::Const(c)) on the second table
HashconsOther(t, c) ==
    LET v == Const(c)
        ks == FindKeyOther(v)
        k == CHOOSE x \in ks : TRUE
        n == Len(vals) + 1
    IN  /\ Idle(t)
        /\ IF ks # {} /\ strong[table2[k]] > 0
           THEN /\ handles[table2[k]] < MaxRefs
                /\ strong' = SeqInc(strong, table2[k])
                /\ handles' = SeqInc(handles, table2[k])
                /\ UNCHANGED <<vals, held, foreign, table2>>
           ELSE /\ Len(vals) < Room(v)
                /\ Cardinality(foreign) < MaxForeign
                /\ vals' = Append(vals, v)
                /\ strong' = Append(strong, 1)
                /\ handles' = Append(handles, 1)
                /\ held' = held \cup {n}
                /\ foreign' = foreign \cup {n}
                /\ table2' = IF ks # {} THEN [table2 EXCEPT ![k] = n] ELSE table2 @@ (n :> n)
        /\ swept' = FALSE
        /\ UNCHANGED <<config, spare, store, table, lock, local, keep>>

\* mutant: the destructor of a foreign Slot removes the equal entry of the
\* first table as well
RemoveEntryBoth(t) ==
    LET s == cur[t]
    IN  /\ s \in foreign
        /\ pc[t] # "panic"
        /\ table2' = Without(table2, FindKeyOther(vals[s]))
        /\ table' = Without(table, FindKey(vals[s]))
        /\ held' = held \ {s}
        /\ cur' = [cur EXCEPT ![t] = 0]
        /\ UNCHANGED <<config, spare, store, vals, strong, handles, foreign, lock, pc, todo,
                       visited, dropped, keep, swept>>

\* Inner::drop of a foreign Slot: _table.upgrade() is the second table, and
\* remove_entry(&key) acts on its map
RemoveEntryOther(t) ==
    LET s == cur[t]
    IN  /\ s \in foreign
        /\ pc[t] # "panic"
        /\ table2' = Without(table2, FindKeyOther(vals[s]))
        /\ held' = held \ {s}
        /\ cur' = [cur EXCEPT ![t] = 0]
        /\ UNCHANGED <<config, spare, store, vals, strong, handles, foreign, table, lock, pc, todo,
                       visited, dropped, keep, swept>>

\* cleanup() on the second table: its entries are constants, so the first
\* retain pass removes every dead entry and the next one removes nothing
CleanupOther(t) ==
    /\ HasCleanup
    /\ Idle(t)
    /\ table2' = Without(table2, {k \in DOMAIN table2 : strong[table2[k]] = 0})
    /\ UNCHANGED <<config, spare, store, heap, foreign, table, lock, local, keep, swept>>

----------------------------------------------------------------------------
\* the structural value of v: its variant and the values of its operands
RECURSIVE Term(_)
Term(v) == <<v.tag, [i \in 1..Len(v.kids) |-> Term(vals[v.kids[i]])]>>

(* Keep-all runs: every handle hashcons returns is kept.  The caller of      *)
(* hashcons(And(a, b)) passes clones of its handles to a and b.              *)

KeepConst(t, c) ==
    /\ Idle(t)
    /\ Owns(t)
    /\ lock = 0
    /\ calls[t][c] < MaxCalls
    /\ Intern(t, Const(c), handles, strong, NumThreads * MaxCalls)
    /\ calls' = [calls EXCEPT ![t][c] = @ + 1]
    /\ seen' = seen \cup {Term(Const(c))}
    /\ UNCHANGED <<config, second, spare, tables, cur, visited, dropped, swept>>

KeepAnd(t, a, b) ==
    /\ Idle(t)
    /\ Owns(t)
    /\ lock = 0
    /\ vals[a].tag = "T"
    /\ vals[b].tag = "F"
    /\ handles[a] >= 1
    /\ handles[b] >= 1
    /\ Intern(t, And(a, b), handles, SeqInc(SeqInc(strong, a), b), MaxRefs)
    /\ seen' = seen \cup {Term(And(a, b))}
    /\ UNCHANGED <<config, second, spare, tables, cur, visited, dropped, calls, swept>>

----------------------------------------------------------------------------
Step(t) ==
    \/ \E c \in Consts : HashconsConst(t, c)
    \/ \E a, b \in Slots : HashconsAnd(t, a, b)
    \/ HitReturn(t)
    \/ \E s \in Slots : Clone(t, s)
    \/ \E s \in Slots : DropHandle(t, s)
    \/ DropNested(t)

Sweep(t) ==
    \/ CleanupCall(t)
    \/ \E k \in DOMAIN table : RetainEntry(t, k)
    \/ PassEnd(t)

\* every thread of the build holds one owner of the table
Shared == tables = [t \in Threads |-> IF t \in Active THEN 1 ELSE 0]

\* the single-threaded build, with the auto-cleanup feature on or off
InitST == Init /\ variant = "st" /\ auto \in BOOLEAN /\ Shared
NextST == Step(1) \/ RemoveEntry(1) \/ Sweep(1)
SpecST == InitST /\ [][NextST]_vars

\* the thread-safe build with auto-cleanup
InitMTAuto == Init /\ variant = "mt" /\ auto = TRUE /\ Shared
NextMTAuto == \E t \in Threads : Step(t) \/ RemoveEntry(t)
SpecMTAuto == InitMTAuto /\ [][NextMTAuto]_vars

\* the thread-safe build without auto-cleanup
InitMTManual == Init /\ variant = "mt" /\ auto = FALSE /\ Shared
NextMTManual == \E t \in Threads : Step(t) \/ Sweep(t) \/ PassAgain(t)
SpecMTManual == InitMTManual /\ [][NextMTManual]_vars

\* either build without auto-cleanup, used by one thread
InitSolo == Init /\ variant \in {"st", "mt"} /\ auto = FALSE /\ Shared
NextSolo == Step(1) \/ RemoveEntry(1) \/ Sweep(1) \/ PassAgain(1)
SpecSolo == InitSolo /\ [][NextSolo]_vars

\* the same, and the thread that is inside cleanup() keeps running
SpecSoloFair ==
    InitSolo /\ [][NextSolo]_vars /\ WF_vars(Sweep(1) \/ PassAgain(1) \/ DropNested(1))

\* every build; every handle is kept
InitKeep == Init /\ variant \in {"st", "mt"} /\ auto \in BOOLEAN /\ Shared
NextKeep ==
    \E t \in Active :
        \/ \E c \in Consts : KeepConst(t, c)
        \/ \E a, b \in Slots : KeepAnd(t, a, b)
        \/ DropNested(t)
        \/ HitReturn(t)
SpecKeep == InitKeep /\ [][NextKeep]_vars

\* the thread-safe build with auto-cleanup, with values that hold one handle
InitNested == Init /\ variant = "mt" /\ auto = TRUE /\ Shared
NextNested ==
    \E t \in Threads :
        \/ HashconsConst(t, "T")
        \/ \E a \in Slots : HashconsNot(t, a)
        \/ HitReturn(t)
        \/ \E s \in Slots : DropHandle(t, s)
        \/ DropNested(t)
        \/ RemoveEntry(t)
SpecNested == InitNested /\ [][NextNested]_vars

\* the thread that made the table and the thread that is given clones of it
Parties == {1, NumThreads}

\* the thread-safe build with a value whose destructor panics
InitPoison == Init /\ variant = "mt" /\ auto \in BOOLEAN /\ Shared
NextPoison ==
    \E t \in Parties :
        \/ \E c \in {"P", "T"} : HashconsConst(t, c)
        \/ \E s \in Slots : DropHandle(t, s)
        \/ RemoveEntry(t)
        \/ Sweep(t)
        \/ PassAgain(t)
SpecPoison == InitPoison /\ [][NextPoison]_vars

\* table owners are cloned, handed to other threads and dropped; a new table
\* has one owner
InitTables == Init /\ variant \in {"st", "mt"} /\ auto \in BOOLEAN
              /\ tables = [t \in Threads |-> IF t = 1 THEN 1 ELSE 0]
NextTables ==
    \E t \in Active \cap Parties :
        \/ \E c \in Consts : HashconsConst(t, c)
        \/ \E a, b \in Slots : HashconsAnd(t, a, b)
        \/ HitReturn(t)
        \/ \E s \in Slots : DropHandle(t, s)
        \/ DropNested(t)
        \/ RemoveEntry(t)
        \/ \E u \in Parties : CloneTable(t, u)
        \/ DropTable(t)
SpecTables == InitTables /\ [][NextTables]_vars

\* the whole life of a table: handles are made and dropped, entries
\* are removed and overwritten, cleanup() runs, and the owners of the table
\* (one per thread) are dropped
InitLife == Init /\ variant \in {"st", "mt"} /\ auto \in BOOLEAN
            /\ tables = [t \in Threads |-> IF t \in Active \cap Parties THEN 1 ELSE 0]
NextLife ==
    \E t \in Active \cap Parties :
        \/ \E c \in Consts : HashconsConst(t, c)
        \/ \E a, b \in Slots : HashconsAnd(t, a, b)
        \/ HitReturn(t)
        \/ \E s \in Slots : DropHandle(t, s)
        \/ DropNested(t)
        \/ RemoveEntry(t)
        \/ Sweep(t)
        \/ PassAgain(t)
        \/ DropTable(t)
SpecLife == InitLife /\ [][NextLife]_vars

\* every build, with Const(true) and Not(Const(true)), two values of one hash
InitBuilds == Init /\ variant \in {"st", "mt"} /\ auto \in BOOLEAN /\ Shared
NextBuilds ==
    \E t \in Active \cap Parties :
        \/ HashconsConst(t, "T")
        \/ \E a \in Slots : HashconsNot(t, a)
        \/ HitReturn(t)
        \/ \E s \in Slots : DropHandle(t, s)
        \/ DropNested(t)
        \/ RemoveEntry(t)
        \/ Sweep(t)
        \/ PassAgain(t)
SpecBuilds == InitBuilds /\ [][NextBuilds]_vars

\* one thread with two tables: Const(true) in both, and Not(Const(true)) in
\* the first.  The single-threaded build is taken once: its Drop for Inner
\* and its cleanup() do not depend on the auto-cleanup feature.
InitTwo ==
    Init /\ variant \in {"st", "mt"} /\ auto \in BOOLEAN /\ (variant = "st" => auto) /\ Shared
NextTwo ==
    \/ HashconsConst(1, "T")
    \/ HashconsOther(1, "T")
    \/ \E a \in Slots : HashconsNot(1, a)
    \/ HitReturn(1)
    \/ \E s \in Slots : DropHandle(1, s)
    \/ DropNested(1)
    \/ cur[1] \notin foreign /\ RemoveEntry(1)
    \/ RemoveEntryOther(1)
    \/ Sweep(1)
    \/ PassAgain(1)
    \/ CleanupOther(1)
SpecTwo == InitTwo /\ [][NextTwo]_vars

----------------------------------------------------------------------------
(* The claims.                                                              *)

\* no thread is inside an operation
Quiet == \A t \in Threads : Idle(t)

LiveSlots == {s \in Slots : Live(s)}

\* C1: thread-safe build with auto-cleanup: at every instant, two live Slots
\* (Slots that have a handle) never hold equal values, so any two handles
\* alive at the same time that wrap equal values refer to the same Slot.
C1_LiveEqualShareSlot ==
    variant = "mt" /\ auto =>
        \A s1, s2 \in LiveSlots : HcEq(s1, s2) => s1 = s2

\* C2: single-threaded build: two live Slots never hold equal values: handles
\* compare equal (Hc::eq) exactly when they refer to the same Slot, so a
\* hashcons of a value equal to one that still has a handle returns that Slot.
C2_DedupST ==
    variant = "st" =>
        \A s1, s2 \in LiveSlots : HcEq(s1, s2) <=> s1 = s2

\* C2 witness: two handles from hashcons calls of equal values are alive on
\* one Slot, next to a live Slot of an unequal value
C2_Witness ==
    /\ variant = "st"
    /\ Quiet
    /\ \E s1, s2 \in LiveSlots : handles[s1] >= 2 /\ handles[s2] >= 1 /\ ~HcEq(s1, s2)

RECURSIVE CallsUpTo(_, _)
CallsUpTo(n, c) == IF n = 0 THEN 0 ELSE calls[n][c] + CallsUpTo(n - 1, c)
\* the hashcons(Const(c)) calls of all threads so far
TotalCalls(c) == CallsUpTo(NumThreads, c)
\* the Slots ever created for Const(c)
SlotsOf(c) == {s \in Slots : vals[s] = Const(c)}

\* C3: thread-safe build, every handle kept: however the hashcons(Const(c))
\* calls of the threads interleave, exactly one Slot is ever created for c, it
\* has one entry, every call's handle refers to it, and once each of the
\* NumThreads threads has made its MaxCalls calls the Slot carries all
\* NumThreads * MaxCalls handles and, when c is the only value interned,
\* len() is 1.
C3_OneSlotForAllThreads ==
    variant = "mt" =>
        \A c \in Consts :
            /\ Cardinality(SlotsOf(c)) = (IF TotalCalls(c) > 0 THEN 1 ELSE 0)
            /\ \A s \in SlotsOf(c) :
                  /\ handles[s] = TotalCalls(c)
                  /\ FindKey(Const(c)) = {s}
                  /\ table[s] = s
            /\ (\A t \in Threads : calls[t][c] = MaxCalls) =>
                  /\ \E s \in SlotsOf(c) : handles[s] = NumThreads * MaxCalls
                  /\ seen = {Term(Const(c))} => TableLen = 1

\* C3 witness: every thread has made all its calls for one constant, the only
\* value interned
C3_Witness ==
    /\ variant = "mt"
    /\ \E c \in Consts :
          /\ \A t \in Threads : calls[t][c] = MaxCalls
          /\ seen = {Term(Const(c))}
          /\ TableLen = 1

\* C4: either build, either cleanup mode, every handle kept: len() equals
\* the number of distinct values interned so far.
C4_LenCountsDistinctValues == TableLen = Cardinality(seen)

\* C4 witness: three distinct values are interned, one of them more than once
C4_Witness ==
    /\ Quiet
    /\ Cardinality(seen) = 3
    /\ \E s \in Slots : handles[s] >= 2

\* C5: thread-safe build with auto-cleanup: once every handle has been
\* dropped and every Slot destructor has finished, the map is empty, whatever
\* the interleaving of hashcons and drops was.
C5_AllDroppedEmpty ==
    (variant = "mt" /\ auto /\ Quiet /\ LiveSlots = {}) => TableLen = 0

\* C5 witness: all handles are gone and all destructors done after a value
\* was interned again while or after its earlier Slot was destroyed
C5_Witness ==
    /\ variant = "mt" /\ auto /\ Quiet /\ LiveSlots = {}
    /\ \E s1, s2 \in Slots : s1 # s2 /\ vals[s1] = vals[s2]

\* C6: single-threaded build with auto-cleanup: between two operations len()
\* is the number of Slots that have a handle (handles inside interned values
\* count), and the keys are exactly those Slots' values.
C6_LenCountsLiveSlots ==
    (variant = "st" /\ auto /\ Idle(1)) =>
        /\ TableLen = Cardinality(LiveSlots)
        /\ \A s \in LiveSlots : \E k \in DOMAIN table : table[k] = s

\* C6 witness: And(true, false) and its operands were interned, the caller's
\* last handle was dropped, and len() is back to 0
C6_Witness ==
    /\ variant = "st" /\ auto /\ Idle(1)
    /\ \E s \in Slots : vals[s].tag = "And"
    /\ LiveSlots = {}
    /\ TableLen = 0

\* C7: single-threaded build without auto-cleanup: no step outside cleanup()
\* removes an entry, so dropping handles does not change len().
C7_DropKeepsLenManualST ==
    [][(variant = "st" /\ ~auto /\ pc[1] # "sweep") => DOMAIN table \subseteq DOMAIN table']_vars

\* C8: thread-safe build without auto-cleanup: a step that drops a handle
\* leaves the map unchanged; an entry is removed only by a retain pass of
\* cleanup(), and an entry's Weak is replaced only when it is dead.
C8_DropKeepsMapManualMT ==
    [][(variant = "mt" /\ ~auto) =>
          /\ (\E s \in Slots : strong'[s] < strong[s]) => table' = table
          /\ \A k \in DOMAIN table :
                IF k \in DOMAIN table'
                THEN table'[k] # table[k] => strong[table[k]] = 0
                ELSE \E t \in Threads : pc[t] = "sweep" /\ lock = t]_vars

\* C8 witness: a Slot has lost its last handle and its entry is still there
C8_Witness ==
    /\ variant = "mt" /\ ~auto /\ Quiet
    /\ \E k \in DOMAIN table : strong[table[k]] = 0

\* C9: thread-safe build without auto-cleanup, one thread: when cleanup() has
\* returned, no entry has a dead Weak and len() is the number of Slots that
\* still have a handle.
C9_CleanupReachesFixpoint ==
    (variant = "mt" /\ swept /\ Idle(1)) =>
        /\ \A k \in DOMAIN table : Live(table[k])
        /\ TableLen = Cardinality(LiveSlots)

\* C9 witness: And(true, false) and its operands were interned, every handle
\* dropped, and cleanup() has returned with len() = 0
C9_Witness ==
    /\ variant = "mt" /\ swept /\ Idle(1)
    /\ \E s \in Slots : vals[s].tag = "And"
    /\ Len(vals) = 3
    /\ TableLen = 0

\* C10: without auto-cleanup: a cleanup() called right after cleanup() has
\* returned removes no entry and leaves the map unchanged.
C10_CleanupIdempotent ==
    [][(swept /\ swept') => table' = table]_vars

\* C10 witness: the second cleanup() has visited every entry of a non-empty map
C10_Witness ==
    /\ swept
    /\ pc[1] = "sweep"
    /\ table # <<>>
    /\ visited[1] = DOMAIN table

\* C11: thread-safe build without auto-cleanup: under every interleaving of
\* hashcons, clone, drop and cleanup() by the threads, two live Slots never
\* hold equal values, so two handles alive at the same instant that wrap
\* equal values refer to the same Slot.
C11_LiveEqualShareSlotManual ==
    (variant = "mt" /\ ~auto) =>
        \A s1, s2 \in LiveSlots : HcEq(s1, s2) => s1 = s2

\* C11 witness: a value was interned again over its stale entry and has two
\* handles, while another thread is inside a retain pass of cleanup()
C11_Witness ==
    /\ variant = "mt" /\ ~auto
    /\ \E k \in DOMAIN table : table[k] # k /\ handles[table[k]] >= 2
    /\ \E t \in Threads : pc[t] = "sweep" /\ visited[t] # {}

\* C12: thread-safe build: all owners of a table work on one map.  Cloning an
\* owner, or dropping one while another remains, changes neither the map (and
\* so len() seen through any owner) nor any Slot, value or handle; and a
\* hashcons through any owner never creates a second Slot for a value whose
\* entry points to a Slot that has a handle.
C12_ClonesShareStore ==
    [][variant = "mt" =>
          /\ (tables' # tables /\ \E u \in Threads : tables'[u] > 0) =>
                UNCHANGED <<table, vals, strong, handles, held>>
          /\ Len(vals') > Len(vals) =>
                \A k \in DOMAIN table :
                    ValEq(vals[k], vals'[Len(vals')]) => ~Live(table[k])]_vars

\* C12 witness: the first owner is gone, the two values interned are still
\* counted through the clone another thread received, and one of the two
\* Slots carries MaxRefs handles
C12_Witness ==
    /\ variant = "mt"
    /\ Quiet
    /\ tables[1] = 0
    /\ \E u \in Threads : tables[u] > 0
    /\ TableLen = 2
    /\ \E s \in LiveSlots : handles[s] = MaxRefs /\ table[s] = s /\ Len(vals) = 2

\* C13: while a Slot created from a table has a handle, the table's
\* InnerTable exists, also after every owner of the table has been dropped.
C13_StoreLivesWithSlots ==
    LiveSlots # {} => StoreAlive

\* C14: when the last handle of a Slot is dropped after the InnerTable has
\* been destroyed, the destructor takes no lock and touches no map, nothing
\* panics, and the Slot is destroyed together with its value; until then
\* every Slot that has a handle owns its value.
C14_DropAfterStoreGone ==
    [][/\ \A s \in Slots :
             (~StoreAlive /\ strong[s] = 1 /\ strong'[s] = 0) =>
                 /\ table = <<>> /\ table' = <<>>
                 /\ cur' = cur /\ lock' = lock
                 /\ \A t \in Threads : pc'[t] # "panic"
                 /\ s \in held /\ s \notin held'
       /\ \A s \in 1..Len(vals') : strong'[s] > 0 => s \in held']_vars

\* C14 witness: single-threaded build: the table was dropped first, then the
\* last handle of And(true, false); its Slot and value are destroyed and the
\* two handles the value held are about to be dropped
C14_Witness ==
    /\ variant = "st"
    /\ ~StoreAlive
    /\ pc[1] = "idle"
    /\ \E s \in Slots :
          /\ vals[s].tag = "And"
          /\ strong[s] = 0 /\ s \notin held
          /\ todo[1] = vals[s].kids

\* C15: thread-safe build: no thread ever asks for the table's lock while it
\* holds that lock itself, so no call waits forever on its own lock.
C15_NoSelfWait ==
    variant = "mt" => \A t \in Threads : ~(cur[t] # 0 /\ lock = t)

\* C16: thread-safe build: once the lock is poisoned, hashcons, cleanup and
\* the last-handle drop still get their guard (no call panics on the lock),
\* and they work as before: without auto-cleanup two live Slots never hold
\* equal values; with auto-cleanup the destructors still remove the entries,
\* so that the map is empty once every handle is gone.
C16_PoisonedLockRecovered ==
    (variant = "mt" /\ poisoned) =>
        /\ \A t \in Threads : pc[t] # "panic"
        /\ ~auto => \A s1, s2 \in LiveSlots : HcEq(s1, s2) => s1 = s2
        /\ (auto /\ Quiet /\ LiveSlots = {}) => TableLen = 0

\* C16 witness: a cleanup() that got the write lock after it was poisoned has
\* kept a live entry and goes on with its retain pass
C16_Witness ==
    /\ variant = "mt" /\ poisoned
    /\ \E t \in Threads : pc[t] = "sweep" /\ visited[t] # {} /\ lock = t

\* C17: thread-safe build with auto-cleanup: the step that ends the
\* destructor of a Slot whose value panics on drop removes the entry, leaves
\* the lock free and as unpoisoned as it was, destroys the value (whose
\* destructor raises the panic in the dropping thread) and leaves the thread
\* able to go on.
C17_PanicAfterUnlock ==
    [][(variant = "mt" /\ auto) =>
          \A t \in Threads :
              (cur[t] # 0 /\ cur'[t] = 0 /\ PanicsOnDrop(vals[cur[t]])) =>
                  /\ poisoned' = poisoned
                  /\ lock' = 0
                  /\ \A k \in DOMAIN table' : ~ValEq(vals[k], vals[cur[t]])
                  /\ cur[t] \notin held'
                  /\ pc'[t] = pc[t]]_vars

\* C17 witness: a Slot whose value panics on drop has been destroyed, the lock
\* is not poisoned, and the value has been interned again in a vacant entry
C17_Witness ==
    /\ variant = "mt" /\ auto /\ ~poisoned /\ Quiet
    /\ \E s1, s2 \in Slots :
          /\ s1 < s2
          /\ PanicsOnDrop(vals[s1]) /\ PanicsOnDrop(vals[s2])
          /\ strong[s1] = 0 /\ s1 \notin held
          /\ Live(s2) /\ s2 \in DOMAIN table /\ table[s2] = s2

SlotsHashing(S, h) == {s \in S : HcHash(s) = h}
TermsHashing(h) == {x \in seen : ValHash([tag |-> x[1], kids |-> <<>>]) = h}

\* C19: when every returned handle is kept, the values interned so far that
\* share a hash each have an entry and a Slot of their own: for every hash the
\* map holds as many entries, and as many live Slots, as distinct values of
\* that hash were interned, len() counts all of them, and no two handles on
\* different Slots compare equal.
C19_CollidingValuesKeptApart ==
    /\ \A s \in LiveSlots :
           /\ Cardinality(SlotsHashing(DOMAIN table, HcHash(s))) =
                  Cardinality(TermsHashing(HcHash(s)))
           /\ Cardinality(SlotsHashing(LiveSlots, HcHash(s))) =
                  Cardinality(TermsHashing(HcHash(s)))
    /\ TableLen = Cardinality(seen)
    /\ \A s1, s2 \in LiveSlots : s1 # s2 => ~HcEq(s1, s2)

\* C19 witness: Const(true) and And(Const(true), Const(false)) hash alike,
\* both were interned and kept, and the table is at rest with an entry for each
C19_Witness ==
    /\ Quiet
    /\ \E s1, s2 \in LiveSlots \cap DOMAIN table :
           /\ vals[s1].tag = "T" /\ vals[s2].tag = "And"
           /\ HcHash(s1) = HcHash(s2)
           /\ ~HcEq(s1, s2)
    /\ TableLen = Cardinality(seen)
    /\ TableLen >= 2

\* the map has an entry whose Weak refers to Slot s
HasEntry(s) == \E k \in DOMAIN table : table[k] = s

\* C20: a step that clones a handle of Slot s adds one handle and one strong
\* reference to s and changes nothing else: no Slot is created, no value
\* copied, the map and len() stay as they are; and while two handles of a Slot
\* are alive (the original and its clone), no step takes away the Slot's
\* value or its entry in the map.
C20_CloneSharesSlot ==
    [][/\ \A t \in Threads, s \in Slots :
              Clone(t, s) =>
                  /\ handles' = SeqInc(handles, s)
                  /\ strong' = SeqInc(strong, s)
                  /\ vals' = vals /\ held' = held /\ table' = table
                  /\ TableLen' = TableLen
       /\ \A s \in Slots :
              (handles[s] >= 2 /\ HasEntry(s)) =>
                  /\ s \in held'
                  /\ HasEntry(s)']_vars

\* Hc::get on a handle of Slot s can be followed to the end: the Inner owns
\* its elem, and every handle inside the value is a handle of a live Slot
\* whose value is readable in turn
RECURSIVE Readable(_)
Readable(s) ==
    /\ s \in held
    /\ \A i \in 1..Len(vals[s].kids) :
           Live(vals[s].kids[i]) /\ Readable(vals[s].kids[i])

\* C21: for every Slot that has a handle before and after a step, whatever
\* the step is (a hashcons, a drop, a cleanup pass, the removal or overwrite
\* of its entry, the destruction of the table): the value behind the handle
\* is the same, down to the values of the handles it holds, and it is
\* readable.
C21_ValueStable ==
    [][\A s \in Slots :
           (Live(s) /\ strong'[s] > 0) =>
               /\ vals'[s] = vals[s]
               /\ Term(vals[s])' = Term(vals[s])
               /\ Readable(s)']_vars

\* C21 witness: the table has been destroyed and the caller holds no handle
\* of Const(true) or Const(false) any more, yet its handle of
\* And(Const(true), Const(false)) reads the whole value
C21_Witness ==
    /\ ~StoreAlive
    /\ table = <<>>
    /\ Quiet
    /\ \E s \in LiveSlots :
           /\ vals[s].tag = "And"
           /\ handles[s] >= 1
           /\ \A i \in 1..Len(vals[s].kids) : handles[vals[s].kids[i]] = 0
           /\ Readable(s)
           /\ Term(vals[s]) = <<"And", <<<<"T", <<>>>>, <<"F", <<>>>>>>>>

\* the Slots the value of Slot s holds handles of
SubSlots(s) == {vals[s].kids[i] : i \in 1..Len(vals[s].kids)}

\* C22: live Slots of compound values with equal values are one Slot, and
\* every Slot that the value of a live Slot holds a handle of is alive and
\* has its entry in the map, whether or not the caller still has handles of
\* it.
C22_SubSlotsKept ==
    /\ \A s1, s2 \in LiveSlots :
           (vals[s1].kids # <<>> /\ HcEq(s1, s2)) => s1 = s2
    /\ \A s \in LiveSlots :
           \A x \in SubSlots(s) : Live(x) /\ HasEntry(x)

\* C23: every handle comes from a completed hashcons call (or is a clone of
\* such a handle), and a call creates at most the Slot it returns; so of two
\* calls with equal values whose handles both exist, one returned the Slot
\* the other created or both returned an older Slot exactly when the two
\* handles are handles of one Slot.
C23_EqualCallsShareSlot ==
    \A s1, s2 \in Slots :
        (handles[s1] >= 1 /\ handles[s2] >= 1 /\ HcEq(s1, s2)) => s1 = s2

\* the keys of the map whose Weak refers to Slot s
KeysOf(s) == {k \in DOMAIN table : table[k] = s}

\* C24: thread-safe build with auto-cleanup: every live Slot has exactly one
\* key in the map whose Weak upgrades to it; so an entry that intern has
\* pointed at a new Slot B is still there, and still refers to B, when the
\* destructor of the stale Slot A has finished.
C24_LiveSlotHasOneKey ==
    (variant = "mt" /\ auto) =>
        \A s \in LiveSlots : Cardinality(KeysOf(s)) = 1

\* C25: in every build and every state, an entry's Weak either does not
\* upgrade or upgrades to a Slot that owns a value equal to the entry's key.
C25_EntryMatchesKey ==
    \A k \in DOMAIN table :
        Live(table[k]) =>
            /\ table[k] \in held
            /\ ValEq(vals[k], vals[table[k]])
            /\ Term(vals[k]) = Term(vals[table[k]])

\* C25 witness: one entry was overwritten (its key is the allocation of a
\* destroyed Slot, its Weak upgrades to a newer Slot of an equal value) and
\* another entry's Weak does not upgrade
C25_Witness ==
    /\ \E k \in DOMAIN table :
           /\ table[k] # k
           /\ Live(table[k])
           /\ ValEq(vals[k], vals[table[k]])
    /\ \E k \in DOMAIN table : ~Live(table[k])

\* Inner::drop of Slot s has started and has not got its write lock yet
DropPending(s) == \E t \in Threads : cur[t] = s /\ pc[t] # "panic"

\* C26: thread-safe build with auto-cleanup: an entry whose Weak does not
\* upgrade refers to a Slot whose destructor has started and has not yet
\* acquired the write lock; so when no destructor is pending every entry's
\* Weak upgrades.
C26_StaleOnlyWhileDropPending ==
    (variant = "mt" /\ auto) =>
        /\ \A k \in DOMAIN table : ~Live(table[k]) => DropPending(table[k])
        /\ (\A s \in Slots : ~DropPending(s)) => \A k \in DOMAIN table : Live(table[k])

CallsHashcons(v) ==
    \/ \E t \in Threads, c \in Consts : v = Const(c) /\ HashconsConst(t, c)
    \/ \E t \in Threads, a \in Slots : v = Not(a) /\ HashconsNot(t, a)
    \/ \E t \in Threads, a, b \in Slots : v = And(a, b) /\ HashconsAnd(t, a, b)

\* the values hashcons can be called with: the constants, Not of a handle of
\* Const(true), And of handles of Const(true) and Const(false)
Values ==
    LET Of(tag) == {s \in Slots : vals[s].tag = tag}
    IN  {Const(c) : c \in Consts} \cup {Not(a) : a \in Of("T")}
            \cup {And(a, b) : a \in Of("T"), b \in Of("F")}

\* the previous Slot of v was destroyed: a Slot of an equal value has no
\* handle left, and no entry for v has a Weak that upgrades
Destroyed(v) ==
    /\ \E s \in Slots : ~Live(s) /\ ValEq(vals[s], v)
    /\ \A k \in FindKey(v) : ~Live(table[k])

\* C28: a hashcons(v) call made when the previous Slot of v was destroyed
\* creates one new Slot with value v and one handle, the handle it returns,
\* and leaves exactly one entry for v, which refers to the new Slot; when the
\* stale entry was still there the number of entries is the same, otherwise
\* it grows by one.
C28_FreshSlotAfterDestroy ==
    [][\A v \in Values :
           (Destroyed(v) /\ CallsHashcons(v)) =>
               LET n == Len(vals) + 1
                   ks == {k \in DOMAIN table' : ValEq(vals'[k], v)}
               IN  /\ Len(vals') = n
                   /\ vals'[n] = v
                   /\ strong'[n] = 1
                   /\ handles'[n] = 1
                   /\ n \in held'
                   /\ Cardinality(ks) = 1
                   /\ \A k \in ks : table'[k] = n
                   /\ TableLen' = TableLen + (IF FindKey(v) = {} THEN 1 ELSE 0)]_vars

\* C28 witness: the entry of a destroyed Slot of Const(true) was still in the
\* map when hashcons(Const(true)) was called again: the map has one entry for
\* the value, under the old key, and it refers to the new Slot, which has
\* the one handle the call returned
C28_Witness ==
    \E k \in DOMAIN table :
        /\ table[k] # k
        /\ ~Live(k)
        /\ Live(table[k])
        /\ handles[table[k]] = 1
        /\ vals[k].tag = "T"
        /\ FindKey(vals[table[k]]) = {k}

\* C29: a hashcons(v) call that finds an entry for v whose Weak does not
\* upgrade creates a Slot, points that entry at it and returns its handle:
\* the keys of the map are the same and every other entry is as it was; and a
\* step of cleanup() leaves alone every overwritten entry whose new Slot has
\* a handle.
C29_StaleEntryOverwritten ==
    [][/\ \A v \in Values :
              ((\E k \in FindKey(v) : ~Live(table[k])) /\ CallsHashcons(v)) =>
                  LET n == Len(vals) + 1
                  IN  /\ Len(vals') = n
                      /\ vals'[n] = v
                      /\ handles'[n] = 1
                      /\ DOMAIN table' = DOMAIN table
                      /\ TableLen' = TableLen
                      /\ \A k \in DOMAIN table :
                             table'[k] = IF k \in FindKey(v) THEN n ELSE table[k]
       /\ \A t \in Threads :
              pc[t] = "sweep" =>
                  \A k \in DOMAIN table :
                      (table[k] # k /\ Live(table[k])) =>
                          k \in DOMAIN table' /\ table'[k] = table[k]]_vars

\* C29 witness: cleanup() has returned and the map still has an overwritten
\* entry: its key is the allocation of a destroyed Slot and its Weak upgrades
\* to the Slot that replaced it
C29_Witness ==
    /\ swept
    /\ Quiet
    /\ \E k \in DOMAIN table :
           /\ table[k] # k
           /\ ~Live(k) /\ k \notin held
           /\ Live(table[k])
           /\ handles[table[k]] >= 1

\* C30: a hashcons(v) call that finds an entry for v whose Weak upgrades to
\* Slot s creates no Slot, leaves the map (keys, Weaks, len()) as it is, adds
\* one strong reference and one handle to s and changes no other strong
\* count in its critical section; and until the call returns, while it drops
\* the caller's value, the map stays the same and the call does not fail.
C30_CacheHitFrame ==
    [][/\ \A v \in Values :
              ((\E k \in FindKey(v) : Live(table[k])) /\ CallsHashcons(v)) =>
                  LET s == table[CHOOSE k \in FindKey(v) : Live(table[k])]
                  IN  /\ vals' = vals
                      /\ held' = held
                      /\ table' = table
                      /\ TableLen' = TableLen
                      /\ strong' = SeqInc(strong, s)
                      /\ handles'[s] = handles[s] + 1
       /\ \A t \in Threads :
              pc[t] = "hit" =>
                  /\ table' = table
                  /\ vals' = vals
                  /\ pc'[t] \in {"hit", "idle"}]_vars

\* C31: the key of every entry whose Weak upgrades is the allocation that is
\* the elem of the Slot it refers to: key and Slot share one copy of the
\* value, also after a hashcons that overwrote a stale entry.
C31_KeySharedWithSlot ==
    \A k \in DOMAIN table : Live(table[k]) => table[k] = k

\* thread t is on the drop path: it runs destructors outside of a hashcons or
\* cleanup call
OnDropPath(t) == pc[t] = "idle" /\ (cur[t] # 0 \/ todo[t] # <<>>)

\* C32: builds with Drop for Inner: the step of Inner::drop that removes the
\* entry leaves the lock free and has not yet dropped any handle held in the
\* value (their strong counts are as before); a destructor started on the
\* drop path never finds the lock held by its own thread; and no step of the
\* drop path fails.
C32_DropReleasesBeforeValue ==
    [][DropImpl =>
           \A t \in Threads :
               /\ (pc[t] = "idle" /\ cur[t] # 0 /\ cur'[t] = 0) =>
                      /\ lock' = 0
                      /\ strong' = strong
                      /\ cur[t] \notin held'
               /\ OnDropPath(t)' => (lock' # t /\ pc'[t] # "panic")]_vars

\* C32 witness: the last handle of Not(Const(true)) was dropped, its
\* destructor has removed its entry and released the lock, the value was
\* freed, and the destructor of the Slot of Const(true), whose last handle
\* was inside it, is about to take the lock, which is free
C32_Witness ==
    /\ DropImpl
    /\ lock = 0
    /\ \E t \in Threads, s \in Slots :
           /\ OnDropPath(t)
           /\ vals[s].tag = "Not"
           /\ s \notin held
           /\ cur[t] # 0
           /\ cur[t] \in SubSlots(s)
           /\ ~Live(cur[t])
           /\ KeysOf(s) = {}

----------------------------------------------------------------------------
\* C33: while a hashcons call holds its table's map exclusively on a cache
\* hit, destroying the caller's duplicate value starts no entry removal on
\* that same table: the thread never runs the destructor of a Slot of the
\* table whose guard it holds.
C33_HitStartsNoRemoval ==
    \A t \in Threads :
        (pc[t] = "hit" /\ lock = t) => (cur[t] = 0 \/ cur[t] \in foreign)

----------------------------------------------------------------------------
\* C34: a Slot lives exactly as long as it has a handle.  Dropping a handle
\* that is not the last one of its Slot leaves the map (and so len()) as it
\* was, and the Slot stays upgradeable; with auto-cleanup the entry of a Slot
\* is removed only after the last handle of that Slot was dropped.
C34_EntryLivesWithHandles ==
    [][\A s \in Slots :
          /\ (strong[s] > 1 /\ strong'[s] = strong[s] - 1)
                => (table' = table /\ strong'[s] > 0 /\ (HasEntry(s) => HasEntry(s)'))
          /\ (auto /\ HasEntry(s) /\ ~HasEntry(s)') => strong[s] = 0]_vars

----------------------------------------------------------------------------
\* C35: cleanup() never removes the entry of a Slot that still has a handle,
\* also while other threads call hashcons and drop handles: a step taken
\* while a retain pass runs leaves every entry of a live Slot in the map, and
\* in a build that has cleanup() every live Slot is found by its value, so
\* that hashcons of an equal value returns a handle to that Slot.
C35_CleanupKeepsLiveEntries ==
    /\ [](HasCleanup =>
            \A s \in Slots \ foreign :
                strong[s] > 0 => \E k \in FindKey(vals[s]) : table[k] = s)
    /\ [][(\E t \in Threads : pc[t] = "sweep") =>
              \A k \in DOMAIN table :
                  strong[table[k]] > 0 => (k \in DOMAIN table' /\ table'[k] = table[k])]_vars

\* cleanup() has returned: it removed the entry of a dropped Slot and kept
\* the entry of a Slot that has a handle
C35_Witness ==
    /\ swept
    /\ \E s \in Slots : handles[s] > 0 /\ HasEntry(s)
    /\ \E d \in Slots : strong[d] = 0 /\ ~HasEntry(d) /\ FindKey(vals[d]) = {}

----------------------------------------------------------------------------
\* C36: two tables made by separate new() calls are independent.  The
\* entries of each map refer to Slots made by that table only, so equal
\* values interned in both tables have two Slots, whose handles compare
\* equal.  No step changes both maps: a hashcons that returns a handle of one
\* table, a retain pass of one table and the destructor of a Slot of one
\* table leave the other table's map, and so its len(), as they were; the
\* drop of a handle changes no map before the destructor runs.
C36_TablesIndependent ==
    /\ [](/\ \A k \in DOMAIN table : table[k] \notin foreign
          /\ \A k \in DOMAIN table2 : table2[k] \in foreign
          /\ \A a \in Slots \ foreign : \A b \in foreign :
                 ValEq(vals[a], vals[b]) => (a # b /\ HcEq(a, b)))
    /\ [][/\ table' # table =>
                /\ table2' = table2
                /\ ~\E s \in foreign' : s \notin Slots \/ handles'[s] > handles[s]
                /\ ~\E s \in Slots : handles'[s] < handles[s] /\ strong'[s] < strong[s]
                /\ \A t \in Threads : (cur[t] # 0 /\ cur'[t] = 0) => cur[t] \notin foreign
          /\ table2' # table2 =>
                /\ ~\E s \in (1..Len(vals')) \ foreign' :
                       s \notin Slots \/ handles'[s] > handles[s]
                /\ ~\E s \in Slots : handles'[s] < handles[s] /\ strong'[s] < strong[s]
                /\ \A t \in Threads :
                       /\ pc[t] # "sweep"
                       /\ (cur[t] # 0 /\ cur'[t] = 0) => cur[t] \in foreign]_vars

\* Const(true) was interned in both tables; the last handle of the Slot of
\* the second table was dropped and its destructor has removed the entry of
\* the second table, while the first table still has its entry
C36_Witness ==
    /\ Quiet
    /\ \E a \in Slots \ foreign : \E b \in foreign :
          /\ ValEq(vals[a], vals[b])
          /\ handles[a] > 0
          /\ HasEntry(a)
          /\ strong[b] = 0
          /\ b \notin held
          /\ table2 = <<>>
          /\ DropImpl

\* C36 as stated: while a hashcons or cleanup call on the first table runs,
\* the map of the second table does not change
C36_OtherMapUntouched ==
    [][(\E t \in Threads : pc[t] \in {"hit", "sweep"}) => table2' = table2]_vars

----------------------------------------------------------------------------
\* C37: in the thread-safe build without auto-cleanup, used by one thread,
\* cleanup() returns.  It begins at most (entries at the call + 1) retain
\* passes; a pass that is followed by another one has removed at least one
\* entry, so after each of them the map is smaller than the passes the bound
\* still allows; and the write lock is free between two passes and after the
\* last one.
C37_CleanupTerminates ==
    /\ [](variant = "mt" =>
            \A t \in Threads :
                /\ spare[t] >= 0
                /\ pc[t] = "again" => (TableLen < spare[t] /\ lock # t)
                /\ Idle(t) => lock # t)
    /\ ((variant = "mt" /\ pc[1] = "sweep") ~> (pc[1] = "idle"))

\* a pass that removed an entry has ended and released the lock, and the map
\* still holds a dead entry for the next pass
C37_Witness ==
    /\ variant = "mt"
    /\ pc[1] = "again"
    /\ lock = 0
    /\ \E k \in DOMAIN table : strong[table[k]] = 0

====
